---- MODULE Spec2Model ----
(***************************************************************************)
(* Model of src/server/pdf-extractor-python.py: the command-line entry     *)
(* point, the four-strategy extraction chain of extract_text_from_pdf and  *)
(* analyze_with_openai.                                                    *)
(*                                                                         *)
(* The external collaborators (pdfplumber, pdf2image, pytesseract, the     *)
(* pdftotext executable, the OpenAI client) are the environment: each call *)
(* into them either returns one of a small set of values or raises.        *)
(* Writing a progress line (print) is taken never to raise.                *)
(***************************************************************************)
EXTENDS Integers, Sequences, FiniteSets, TLC

VARIABLES
    pc,                 \* position in the program
    argc,               \* len(sys.argv)
    startup_name,       \* sys.argv[2]
    fileExists,         \* os.path.exists(pdf_path)
    api_key,            \* openai.api_key is set (module global, line 39)
    doc,                \* the document: page count, page with a native text layer, scanned page
    file_size,          \* os.path.getsize(pdf_path)
    extracted_text,     \* local of extract_text_from_pdf
    extraction_method,  \* local of extract_text_from_pdf
    i,                  \* loop index of the running page loop
    images,             \* len(images) returned by convert_from_path
    tmp_alive,          \* temporary files created by the run that still exist
    last,               \* what the latest step of the running page loop did
    api_calls,          \* completion calls made by analyze_with_openai, in order
    result,             \* return value of extract_text_from_pdf
    stdout_json,        \* JSON objects printed as the result
    exit_status         \* process exit status (-1 while running)

vars == <<pc, argc, startup_name, fileExists, api_key, doc, file_size,
          extracted_text, extraction_method, i, images, tmp_alive, last,
          api_calls, result, stdout_json, exit_status>>

(***************************************************************************)
(* Bounds of the model.                                                    *)
(***************************************************************************)
\* largest page count of a document (above the page cap of strategy 1)
MaxPages == 11
\* largest number of temporary files the environment lets a run leave behind
MaxTmpFiles == 2

(***************************************************************************)
(* Program constants.                                                      *)
(***************************************************************************)
S1PageCap == 10
S2PageCap == 5
ExpectedArgc == 3
max_chars == 12000

LabelUnset == ""
LabelNative == "pdfplumber + OCR inline"
LabelFullOCR == "pdf2image + Tesseract OCR completo"
LabelPdftotext == "pdftotext system command"
LabelFallback == "fallback - metadados apenas"
LabelFailed == "failed"

(***************************************************************************)
(* Text.  A Python str is a sequence of tokens; a token is a character, a  *)
(* page-boundary marker, or a word of a fixed template.  Only characters   *)
(* can be whitespace.                                                      *)
(***************************************************************************)
Ch(c) == [k |-> "ch", s |-> c, p |-> 0]
Mark(kind, page) == [k |-> "mark", s |-> kind, p |-> page]
Word(w) == [k |-> "word", s |-> w, p |-> 0]
Num(n) == [k |-> "num", s |-> "", p |-> n]
Arg(a) == [k |-> "arg", s |-> a, p |-> 0]

IsSpace(t) == t.k = "ch" /\ t.s \in {" ", "\n"}

RECURSIVE LStrip(_)
LStrip(s) == IF s = <<>> THEN s
             ELSE IF IsSpace(Head(s)) THEN LStrip(Tail(s)) ELSE s

RECURSIVE RStrip(_)
RStrip(s) == IF s = <<>> THEN s
             ELSE IF IsSpace(s[Len(s)]) THEN RStrip(SubSeq(s, 1, Len(s) - 1)) ELSE s

\* str.strip()
Strip(s) == RStrip(LStrip(s))

\* A value that is None or a str.
NoneVal == [isNone |-> TRUE, v |-> <<>>]
Str(s) == [isNone |-> FALSE, v |-> s]

\* HasText without the strip: whitespace-only text counts as text.
HasTextNoStrip(x) == ~x.isNone /\ x.v # <<>>

\* `x and x.strip()` taken as a condition
HasText(x) == ~x.isNone /\ x.v # <<>> /\ Strip(x.v) # <<>>

\* `if not extracted_text.strip()`
NoTextYet(text) == Strip(text) = <<>>

(***************************************************************************)
(* The document and what the libraries can return for its pages.           *)
(***************************************************************************)
\* A document has n pages, of which at most one (textPage) has a native text
\* layer and at most one other (scanPage) is a scan an OCR engine can read;
\* 0 stands for no such page.  The two special pages lie among the first two
\* or the last two pages of the document.
Positions(n) == {0} \cup {q \in 1..n : q <= 2 \/ q >= n - 1}

Docs == { d \in [n : 0..MaxPages, textPage : 0..MaxPages, scanPage : 0..MaxPages] :
            /\ d.textPage \in Positions(d.n)
            /\ d.scanPage \in Positions(d.n)
            /\ (d.textPage # 0 => d.scanPage # d.textPage) }

\* no file, no document
NoDoc == [n |-> 0, textPage |-> 0, scanPage |-> 0]

PageKind(p) == IF p = doc.textPage THEN "text"
               ELSE IF p = doc.scanPage THEN "scan" ELSE "blank"

\* page.extract_text() when it returns
NativeResults(p) ==
    IF PageKind(p) = "text" THEN { Str(<<Ch("a"), Ch("\n")>>) }
    ELSE { NoneVal, Str(<<>>), Str(<<Ch(" "), Ch("\n")>>) }

\* pytesseract.image_to_string(...) when it returns
OcrResults(p) ==
    IF PageKind(p) = "blank" THEN { <<>>, <<Ch(" "), Ch("\n")>> }
    ELSE { <<Ch("b"), Ch("\n")>>, <<>> }

\* result of subprocess.run(['pdftotext', ...]) when it returns
PdftotextResults ==
    { [returncode |-> 1, stdout |-> <<>>],
      [returncode |-> 1, stdout |-> <<Ch("c")>>],
      [returncode |-> 0, stdout |-> <<>>],
      [returncode |-> 0, stdout |-> <<Ch("\n"), Ch(" ")>>],
      [returncode |-> 0, stdout |-> <<Ch(" "), Ch("c"), Ch("\n")>>] }

FileSizes == {2560}
StartupNames == {"Acme", ""}

NoPage == [strategy |-> 0, page |-> 0, native |-> "none",
           ocrAttempted |-> FALSE, ocrCalled |-> FALSE]

(***************************************************************************)
(* Initial state: the process has been started, nothing has run.           *)
(***************************************************************************)
Init ==
    /\ pc = "main"
    /\ argc \in {2, 3, 4}
    /\ startup_name \in StartupNames
    /\ fileExists \in BOOLEAN
    /\ api_key \in BOOLEAN
    /\ doc \in (IF fileExists THEN Docs ELSE {NoDoc})
    /\ file_size = 0
    /\ extracted_text = <<>>
    /\ extraction_method = LabelUnset
    /\ i = 0
    /\ images = 0
    /\ tmp_alive = 0
    /\ last = NoPage
    /\ api_calls = <<>>
    /\ result = [none |-> TRUE]
    /\ stdout_json = <<>>
    /\ exit_status = -1

(***************************************************************************)
(* __main__ and the entry of extract_text_from_pdf.                        *)
(***************************************************************************)
UsageError ==
    [error |-> "Uso incorreto", extracted_text |-> <<>>,
     extraction_method |-> LabelFailed,
     analysis |-> [error |-> "Argumentos incorretos"]]

NotFoundResult(name) ==
    [error |-> "Arquivo nao encontrado", extracted_text |-> <<>>,
     extraction_method |-> LabelFailed,
     analysis |-> [name |-> name, error |-> "Arquivo nao encontrado"]]

\* TopLevelError without the analysis object of lines 362-366.
TopLevelErrorNoAnalysis(name, exc) ==
    [error |-> exc, error_type |-> exc, extracted_text |-> <<>>,
     extraction_method |-> LabelFailed]

TopLevelError(name, exc) ==
    [error |-> exc, error_type |-> exc, extracted_text |-> <<>>,
     extraction_method |-> LabelFailed,
     analysis |-> [name |-> name, error |-> exc, traceback |-> exc]]

\* len(sys.argv) != 3: print the usage error, sys.exit(1)
MainBadArgs ==
    /\ pc = "main"
    /\ argc # ExpectedArgc
    /\ stdout_json' = Append(stdout_json, UsageError)
    /\ exit_status' = 1
    /\ pc' = "exit"
    /\ UNCHANGED <<argc, startup_name, fileExists, api_key, doc, file_size,
                   extracted_text, extraction_method, i, images, tmp_alive,
                   last, api_calls, result>>

\* len(sys.argv) == 3: call extract_text_from_pdf inside the top-level try
MainCall ==
    /\ pc = "main"
    /\ argc = ExpectedArgc
    /\ pc' = "exists"
    /\ UNCHANGED <<argc, startup_name, fileExists, api_key, doc, file_size,
                   extracted_text, extraction_method, i, images, tmp_alive,
                   last, api_calls, result, stdout_json, exit_status>>

\* `if not os.path.exists(pdf_path): return {...}`
ExtractNotFound ==
    /\ pc = "exists"
    /\ ~fileExists
    /\ result' = NotFoundResult(startup_name)
    /\ pc' = "returned"
    /\ UNCHANGED <<argc, startup_name, fileExists, api_key, doc, file_size,
                   extracted_text, extraction_method, i, images, tmp_alive,
                   last, api_calls, stdout_json, exit_status>>

\* file_size = os.path.getsize(...); extracted_text = ""; extraction_method = ""
ExtractBegin ==
    /\ pc = "exists"
    /\ fileExists
    /\ \E sz \in FileSizes : file_size' = sz
    /\ extracted_text' = <<>>
    /\ extraction_method' = LabelUnset
    /\ pc' = "s1_open"
    /\ UNCHANGED <<argc, startup_name, fileExists, api_key, doc, i, images,
                   tmp_alive, last, api_calls, result, stdout_json, exit_status>>

\* extract_text_from_pdf returned: print the record; the script ends normally
MainPrint ==
    /\ pc = "returned"
    /\ stdout_json' = Append(stdout_json, result)
    /\ exit_status' = 0
    /\ pc' = "exit"
    /\ UNCHANGED <<argc, startup_name, fileExists, api_key, doc, file_size,
                   extracted_text, extraction_method, i, images, tmp_alive,
                   last, api_calls, result>>

(***************************************************************************)
(* Strategy 1: pdfplumber, with inline OCR of the pages without text.      *)
(***************************************************************************)
NativeSection(p, text) ==
    <<Ch("\n"), Mark("PAGINA", p), Ch("\n")>> \o text \o <<Ch("\n")>>

InlineOcrSection(p, text) ==
    <<Ch("\n"), Mark("PAGINA (OCR)", p), Ch("\n")>> \o text \o <<Ch("\n")>>

\* What the calls of one OCR block do: the first call that raises, if any,
\* and the string image_to_string returns when it is reached and returns.
InlineOcrOutcomes(p) ==
    { [raiseAt |-> r, ocr |-> <<>>] : r \in {"to_image", "tempfile", "save", "ocr"} }
    \cup { [raiseAt |-> r, ocr |-> t] : r \in {"none", "unlink"}, t \in OcrResults(p) }

\* The outcomes that leave the temporary file of the block on disk.
LeavesFile(o) == o.raiseAt \in {"save", "ocr", "unlink"}

\* InlineOcr without the `if ocr_text and ocr_text.strip():` of line 92:
\* the section is appended whatever image_to_string returned.
InlineOcrAlwaysAppends(text, tmp, p, o) ==
    IF o.raiseAt \in {"to_image", "tempfile"}
    THEN [text |-> text, tmp |-> tmp, called |-> FALSE]
    ELSE IF o.raiseAt = "save"
    THEN [text |-> text, tmp |-> tmp + 1, called |-> FALSE]
    ELSE IF o.raiseAt = "ocr"
    THEN [text |-> text, tmp |-> tmp + 1, called |-> TRUE]
    ELSE [text |-> text \o InlineOcrSection(p, o.ocr),
          tmp |-> IF o.raiseAt = "unlink" THEN tmp + 1 ELSE tmp,
          called |-> TRUE]

\* The inline OCR block of one page (lines 82-100).  The file exists from
\* NamedTemporaryFile(delete=False) until os.unlink; every exception is
\* caught by `except Exception as ocr_error`.
InlineOcr(text, tmp, p, o) ==
    IF o.raiseAt \in {"to_image", "tempfile"}
    THEN [text |-> text, tmp |-> tmp, called |-> FALSE]
    ELSE LET created == tmp + 1 IN
         IF o.raiseAt = "save"
         THEN [text |-> text, tmp |-> created, called |-> FALSE]
         ELSE IF o.raiseAt = "ocr"
         THEN [text |-> text, tmp |-> created, called |-> TRUE]
         ELSE LET t2 == IF HasText(Str(o.ocr))
                        THEN text \o InlineOcrSection(p, o.ocr) ELSE text
              IN IF o.raiseAt = "unlink"
                 THEN [text |-> t2, tmp |-> created, called |-> TRUE]
                 ELSE [text |-> t2, tmp |-> created - 1, called |-> TRUE]

\* pdfplumber.open(pdf_path) and len(pdf.pages) succeed
S1Open ==
    /\ pc = "s1_open"
    /\ i' = 1
    /\ pc' = "s1_page"
    /\ UNCHANGED <<argc, startup_name, fileExists, api_key, doc, file_size,
                   extracted_text, extraction_method, images, tmp_alive, last,
                   api_calls, result, stdout_json, exit_status>>

\* pdfplumber.open raises: caught by `except Exception as pdf_error`
S1OpenRaises ==
    /\ pc = "s1_open"
    /\ pc' = "s2_guard"
    /\ UNCHANGED <<argc, startup_name, fileExists, api_key, doc, file_size,
                   extracted_text, extraction_method, i, images, tmp_alive,
                   last, api_calls, result, stdout_json, exit_status>>

\* S1InLoop without the `if i > 10: break` of lines 70-71.
S1InLoopNoCap == pc = "s1_page" /\ i <= doc.n

S1InLoop == pc = "s1_page" /\ i <= doc.n /\ i <= S1PageCap

\* S1PageNative with the `else:` of line 78 lost: the inline OCR block runs
\* after the native text was appended.
S1PageNativeThenOcr ==
    /\ S1InLoop
    /\ \E r \in NativeResults(i) :
         /\ HasText(r)
         /\ \E o \in InlineOcrOutcomes(i) :
              LET step == InlineOcr(extracted_text \o NativeSection(i, r.v),
                                    tmp_alive, i, o) IN
              /\ LeavesFile(o) => tmp_alive < MaxTmpFiles
              /\ extracted_text' = step.text
              /\ tmp_alive' = step.tmp
              /\ last' = [strategy |-> 1, page |-> i, native |-> "text",
                          ocrAttempted |-> TRUE, ocrCalled |-> step.called]
    /\ i' = i + 1
    /\ UNCHANGED <<pc, argc, startup_name, fileExists, api_key, doc, file_size,
                   extraction_method, images, api_calls, result, stdout_json,
                   exit_status>>

\* page.extract_text() returns text that is non-empty after strip
S1PageNative ==
    /\ S1InLoop
    /\ \E r \in NativeResults(i) :
         /\ HasText(r)
         /\ extracted_text' = extracted_text \o NativeSection(i, r.v)
    /\ last' = [strategy |-> 1, page |-> i, native |-> "text",
                ocrAttempted |-> FALSE, ocrCalled |-> FALSE]
    /\ i' = i + 1
    /\ UNCHANGED <<pc, argc, startup_name, fileExists, api_key, doc, file_size,
                   extraction_method, images, tmp_alive, api_calls, result,
                   stdout_json, exit_status>>

\* page.extract_text() returns None, "" or whitespace: the inline OCR block runs
S1PageInlineOcr ==
    /\ S1InLoop
    /\ \E r \in NativeResults(i) : ~HasText(r)
    /\ \E o \in InlineOcrOutcomes(i) :
         LET step == InlineOcr(extracted_text, tmp_alive, i, o) IN
         /\ LeavesFile(o) => tmp_alive < MaxTmpFiles
         /\ extracted_text' = step.text
         /\ tmp_alive' = step.tmp
         /\ last' = [strategy |-> 1, page |-> i, native |-> "empty",
                     ocrAttempted |-> TRUE, ocrCalled |-> step.called]
    /\ i' = i + 1
    /\ UNCHANGED <<pc, argc, startup_name, fileExists, api_key, doc, file_size,
                   extraction_method, images, api_calls, result, stdout_json,
                   exit_status>>

\* S1PageError with `break` in place of the `continue` of line 104.
S1PageErrorBreaks ==
    /\ S1InLoop
    /\ last' = NoPage
    /\ pc' = "s1_close"
    /\ UNCHANGED <<argc, startup_name, fileExists, api_key, doc, file_size,
                   extracted_text, extraction_method, i, images, tmp_alive,
                   api_calls, result, stdout_json, exit_status>>

\* page.extract_text() raises: `except Exception as page_error: continue`
S1PageError ==
    /\ S1InLoop
    /\ last' = [strategy |-> 1, page |-> i, native |-> "raised",
                ocrAttempted |-> FALSE, ocrCalled |-> FALSE]
    /\ i' = i + 1
    /\ UNCHANGED <<pc, argc, startup_name, fileExists, api_key, doc, file_size,
                   extracted_text, extraction_method, images, tmp_alive,
                   api_calls, result, stdout_json, exit_status>>

\* the pages are exhausted, or `if i > 10: break`
S1LoopEnd ==
    /\ pc = "s1_page"
    /\ ~(i <= doc.n /\ i <= S1PageCap)
    /\ pc' = "s1_close"
    /\ last' = NoPage
    /\ UNCHANGED <<argc, startup_name, fileExists, api_key, doc, file_size,
                   extracted_text, extraction_method, i, images, tmp_alive,
                   api_calls, result, stdout_json, exit_status>>

\* the `with` block is left and pdf.close() returns
S1Close ==
    /\ pc = "s1_close"
    /\ pc' = "s1_label"
    /\ UNCHANGED <<argc, startup_name, fileExists, api_key, doc, file_size,
                   extracted_text, extraction_method, i, images, tmp_alive,
                   last, api_calls, result, stdout_json, exit_status>>

\* pdf.close() raises on leaving the `with` block: lines 106-110 are skipped,
\* control goes to `except Exception as pdf_error`
S1CloseRaises ==
    /\ pc = "s1_close"
    /\ pc' = "s2_guard"
    /\ UNCHANGED <<argc, startup_name, fileExists, api_key, doc, file_size,
                   extracted_text, extraction_method, i, images, tmp_alive,
                   last, api_calls, result, stdout_json, exit_status>>

\* `if extracted_text.strip(): extraction_method = "pdfplumber + OCR inline"`
S1Label ==
    /\ pc = "s1_label"
    /\ extraction_method' = IF ~NoTextYet(extracted_text) THEN LabelNative
                            ELSE extraction_method
    /\ pc' = "s2_guard"
    /\ UNCHANGED <<argc, startup_name, fileExists, api_key, doc, file_size,
                   extracted_text, i, images, tmp_alive, last, api_calls,
                   result, stdout_json, exit_status>>

(***************************************************************************)
(* Strategy 2: pdf2image + OCR of every rasterized page.                   *)
(***************************************************************************)
FullOcrSection(p, text) ==
    <<Ch("\n"), Mark("PAGINA (PDF2IMAGE+OCR)", p), Ch("\n")>> \o text \o <<Ch("\n")>>

FullOcrOutcomes(p) ==
    { [raiseAt |-> r, ocr |-> <<>>] : r \in {"tempfile", "save", "ocr"} }
    \cup { [raiseAt |-> r, ocr |-> t] : r \in {"none", "unlink"}, t \in OcrResults(p) }

\* The OCR block of one rasterized page (lines 127-145); every exception is
\* caught by `except Exception as page_ocr_error: continue`.
FullOcrPage(text, tmp, p, o) ==
    IF o.raiseAt = "tempfile"
    THEN [text |-> text, tmp |-> tmp, called |-> FALSE]
    ELSE LET created == tmp + 1 IN
         IF o.raiseAt = "save"
         THEN [text |-> text, tmp |-> created, called |-> FALSE]
         ELSE IF o.raiseAt = "ocr"
         THEN [text |-> text, tmp |-> created, called |-> TRUE]
         ELSE LET t2 == IF HasText(Str(o.ocr))
                        THEN text \o FullOcrSection(p, o.ocr) ELSE text
              IN IF o.raiseAt = "unlink"
                 THEN [text |-> t2, tmp |-> created, called |-> TRUE]
                 ELSE [text |-> t2, tmp |-> created - 1, called |-> TRUE]

\* S2Guard without its condition: strategy 2 always runs.
S2GuardAlways ==
    /\ pc = "s2_guard"
    /\ pc' = "s2_convert"
    /\ UNCHANGED <<argc, startup_name, fileExists, api_key, doc, file_size,
                   extracted_text, extraction_method, i, images, tmp_alive,
                   last, api_calls, result, stdout_json, exit_status>>

\* `if not extracted_text.strip():` before strategy 2
S2Guard ==
    /\ pc = "s2_guard"
    /\ pc' = IF NoTextYet(extracted_text) THEN "s2_convert" ELSE "s3_guard"
    /\ UNCHANGED <<argc, startup_name, fileExists, api_key, doc, file_size,
                   extracted_text, extraction_method, i, images, tmp_alive,
                   last, api_calls, result, stdout_json, exit_status>>

\* images = convert_from_path(pdf_path, dpi=150, first_page=1, last_page=5)
S2Convert ==
    /\ pc = "s2_convert"
    /\ images' = IF doc.n < S2PageCap THEN doc.n ELSE S2PageCap
    /\ i' = 1
    /\ pc' = "s2_page"
    /\ UNCHANGED <<argc, startup_name, fileExists, api_key, doc, file_size,
                   extracted_text, extraction_method, tmp_alive, last,
                   api_calls, result, stdout_json, exit_status>>

\* convert_from_path raises: caught by `except Exception as pdf2img_error`
S2ConvertRaises ==
    /\ pc = "s2_convert"
    /\ pc' = "s3_guard"
    /\ UNCHANGED <<argc, startup_name, fileExists, api_key, doc, file_size,
                   extracted_text, extraction_method, i, images, tmp_alive,
                   last, api_calls, result, stdout_json, exit_status>>

\* one iteration of `for i, image in enumerate(images, start=1)`
S2Page ==
    /\ pc = "s2_page"
    /\ i <= images
    /\ \E o \in FullOcrOutcomes(i) :
         LET step == FullOcrPage(extracted_text, tmp_alive, i, o) IN
         /\ LeavesFile(o) => tmp_alive < MaxTmpFiles
         /\ extracted_text' = step.text
         /\ tmp_alive' = step.tmp
         /\ last' = [strategy |-> 2, page |-> i, native |-> "none",
                     ocrAttempted |-> TRUE, ocrCalled |-> step.called]
    /\ i' = i + 1
    /\ UNCHANGED <<pc, argc, startup_name, fileExists, api_key, doc, file_size,
                   extraction_method, images, api_calls, result, stdout_json,
                   exit_status>>

\* after the loop: `if extracted_text.strip(): extraction_method = "pdf2image + ..."`
S2Label ==
    /\ pc = "s2_page"
    /\ i > images
    /\ extraction_method' = IF ~NoTextYet(extracted_text) THEN LabelFullOCR
                            ELSE extraction_method
    /\ pc' = "s3_guard"
    /\ last' = NoPage
    /\ UNCHANGED <<argc, startup_name, fileExists, api_key, doc, file_size,
                   extracted_text, i, images, tmp_alive, api_calls,
                   result, stdout_json, exit_status>>

(***************************************************************************)
(* Strategy 3: the pdftotext command.                                      *)
(***************************************************************************)
\* `if not extracted_text.strip():` before strategy 3
S3Guard ==
    /\ pc = "s3_guard"
    /\ pc' = IF NoTextYet(extracted_text) THEN "s3_run" ELSE "s4_guard"
    /\ UNCHANGED <<argc, startup_name, fileExists, api_key, doc, file_size,
                   extracted_text, extraction_method, i, images, tmp_alive,
                   last, api_calls, result, stdout_json, exit_status>>

\* subprocess.run returns
S3Run ==
    /\ pc = "s3_run"
    /\ \E r \in PdftotextResults :
         IF r.returncode = 0 /\ Strip(r.stdout) # <<>>
         THEN /\ extracted_text' = Strip(r.stdout)
              /\ extraction_method' = LabelPdftotext
         ELSE UNCHANGED <<extracted_text, extraction_method>>
    /\ pc' = "s4_guard"
    /\ UNCHANGED <<argc, startup_name, fileExists, api_key, doc, file_size,
                   i, images, tmp_alive, last, api_calls, result, stdout_json,
                   exit_status>>

\* subprocess.run raises (command missing, timeout): caught
S3RunRaises ==
    /\ pc = "s3_run"
    /\ pc' = "s4_guard"
    /\ UNCHANGED <<argc, startup_name, fileExists, api_key, doc, file_size,
                   extracted_text, extraction_method, i, images, tmp_alive,
                   last, api_calls, result, stdout_json, exit_status>>

(***************************************************************************)
(* Strategy 4: the placeholder built from metadata.                        *)
(***************************************************************************)
\* Placeholder with the size in bytes: the `// 1024` of line 177 lost.
PlaceholderInBytes(name, size) ==
    Strip(<<Ch("\n"),
            Word("DOCUMENTO PDF:"), Ch(" "), Arg("basename(pdf_path)"), Ch("\n"),
            Word("TAMANHO:"), Ch(" "), Num(size), Word("KB"), Ch("\n"),
            Word("STARTUP:"), Ch(" "), Arg(name), Ch("\n"),
            Word("AVISO: Extracao automatica de texto falhou."), Ch("\n")>>)

\* the f-string of lines 175-189, stripped
Placeholder(name, size) ==
    Strip(<<Ch("\n"),
            Word("DOCUMENTO PDF:"), Ch(" "), Arg("basename(pdf_path)"), Ch("\n"),
            Word("TAMANHO:"), Ch(" "), Num(size \div 1024), Word("KB"), Ch("\n"),
            Word("STARTUP:"), Ch(" "), Arg(name), Ch("\n"),
            Word("PROCESSADO:"), Ch(" "), Word("json.dumps(...)"), Ch("\n"),
            Ch("\n"),
            Word("AVISO: Extracao automatica de texto falhou."), Ch("\n"),
            Word("RECOMENDACAO: Revisar manualmente o conteudo do pitch deck."),
            Ch("\n"), Ch(" ")>>)

\* `if not extracted_text.strip():` before the placeholder
S4Guard ==
    /\ pc = "s4_guard"
    /\ pc' = IF NoTextYet(extracted_text) THEN "s4_fallback" ELSE "analyze"
    /\ UNCHANGED <<argc, startup_name, fileExists, api_key, doc, file_size,
                   extracted_text, extraction_method, i, images, tmp_alive,
                   last, api_calls, result, stdout_json, exit_status>>

S4Fallback ==
    /\ pc = "s4_fallback"
    /\ extracted_text' = Placeholder(startup_name, file_size)
    /\ extraction_method' = LabelFallback
    /\ pc' = "analyze"
    /\ UNCHANGED <<argc, startup_name, fileExists, api_key, doc, file_size,
                   i, images, tmp_alive, last, api_calls, result, stdout_json,
                   exit_status>>

(***************************************************************************)
(* analyze_with_openai.                                                    *)
(***************************************************************************)
\* Names bound somewhere in the body of analyze_with_openai: Python makes
\* each of them a local of the function for the whole body.  `openai` is one
\* of them because of the `import openai` statement of line 255.
AnalyzeLocals ==
    {"text", "startup_name", "max_chars", "prompt", "openai", "client",
     "response", "result_text", "analysis_data", "new_api_error",
     "json_error", "ai_error"}

\* Locals bound when the body starts: the parameters.
AnalyzeParams == {"text", "startup_name"}

\* Reading `name` when the locals in `bound` have been assigned.
ReadName(name, bound) ==
    IF name \in AnalyzeLocals
    THEN (IF name \in bound THEN "local" ELSE "UnboundLocalError")
    ELSE "global"

\* What the completion API does in one analysis.
ApiEnvs ==
    [new : {"ok", "raise"}, legacy : {"ok", "raise"},
     content : {"object", "non_object", "malformed"}]

\* The outcome of one call: raised or returned, the completion calls made,
\* and the prompt built (<<>> when the call ended before line 224).
Raised(exc, calls) ==
    [raised |-> TRUE, exc |-> exc, value |-> [none |-> TRUE], calls |-> calls,
     prompt |-> <<>>]
Returned(v, calls) ==
    [raised |-> FALSE, exc |-> "", value |-> v, calls |-> calls, prompt |-> <<>>]
WithPrompt(r, prompt) ==
    [raised |-> r.raised, exc |-> r.exc, value |-> r.value, calls |-> r.calls,
     prompt |-> prompt]

\* lines 211-215
NotConfigured(name) ==
    [name |-> name, description |-> "analise IA nao disponivel",
     error |-> "OpenAI API key nao configurada"]

\* lines 311-318
JsonFailure(name) ==
    [name |-> name, description |-> "analise JSON falhou",
     ceo_name |-> "None", sector |-> "None",
     json_parse_error |-> "JSONDecodeError", raw_response |-> "raw"]

\* lines 324-331
ApiFailure(name, exc) ==
    [name |-> name, description |-> "analise IA falhou",
     ceo_name |-> "None", sector |-> "None",
     error |-> exc, error_type |-> exc]

\* lines 294-304: the parsed object with its name overwritten
Parsed(name) ==
    [name |-> name, description |-> "d", ceo_name |-> "c", sector |-> "s"]

\* lines 219-221
Truncate(text) ==
    IF Len(text) > max_chars
    THEN SubSeq(text, 1, max_chars) \o <<Word("[TEXTO TRUNCADO PARA ANALISE]")>>
    ELSE text

\* lines 286-331, from the response text on
ParseResponse(name, content, calls) ==
    IF content = "object" THEN Returned(Parsed(name), calls)
    ELSE IF content = "malformed" THEN Returned(JsonFailure(name), calls)
    ELSE Returned(ApiFailure(name, "TypeError"), calls)

\* lines 224-251: the f-string of the prompt around the (truncated) text
BuildPrompt(name, text) ==
    <<Word("Analise este texto de pitch deck"), Word("NOME DA STARTUP:"), Arg(name),
      Word("TEXTO DO PITCH DECK:")>>
    \o text
    \o <<Word("RESPONDA APENAS COM JSON VALIDO:"), Arg(name)>>

\* lines 217-331: the body inside `try:`
AnalyzeBody(text, name, env) ==
    LET prompt == BuildPrompt(name, Truncate(text)) IN
    WithPrompt(
        IF env.new = "ok" THEN ParseResponse(name, env.content, <<"new">>)
        ELSE IF env.legacy = "ok"
        THEN ParseResponse(name, env.content, <<"new", "legacy">>)
        ELSE Returned(ApiFailure(name, "Exception"), <<"new", "legacy">>),
        prompt)

\* The whole function.  Line 209 reads `openai` before the try block; the
\* read is of the function's local, which is bound only by line 255.
analyze_with_openai(text, name, key, env) ==
    IF ReadName("openai", AnalyzeParams) = "UnboundLocalError"
    THEN Raised("UnboundLocalError", <<>>)
    ELSE IF ~key THEN Returned(NotConfigured(name), <<>>)
    ELSE AnalyzeBody(text, name, env)

\* lines 193-201: the call of the analyzer and the return of the record.  An
\* exception of the analyzer is caught by nothing in extract_text_from_pdf
\* and reaches `except Exception as e` of __main__ (lines 353-369).
Analyze ==
    /\ pc = "analyze"
    /\ \E env \in ApiEnvs :
         LET r == analyze_with_openai(extracted_text, startup_name, api_key, env) IN
         /\ api_calls' = api_calls \o r.calls
         /\ IF r.raised
            THEN /\ stdout_json' = Append(stdout_json, TopLevelError(startup_name, r.exc))
                 /\ exit_status' = 1
                 /\ pc' = "exit"
                 /\ UNCHANGED result
            ELSE /\ result' = [extracted_text |-> extracted_text,
                               extraction_method |-> extraction_method,
                               text_length |-> Len(extracted_text),
                               file_size_kb |-> file_size \div 1024,
                               analysis |-> r.value]
                 /\ pc' = "returned"
                 /\ UNCHANGED <<stdout_json, exit_status>>
    /\ UNCHANGED <<argc, startup_name, fileExists, api_key, doc, file_size,
                   extracted_text, extraction_method, i, images, tmp_alive,
                   last>>

(***************************************************************************)
(* The program.                                                            *)
(***************************************************************************)
Next ==
    \/ MainBadArgs
    \/ MainCall
    \/ ExtractNotFound
    \/ ExtractBegin
    \/ S1Open
    \/ S1OpenRaises
    \/ S1PageNative
    \/ S1PageInlineOcr
    \/ S1PageError
    \/ S1LoopEnd
    \/ S1Close
    \/ S1CloseRaises
    \/ S1Label
    \/ S2Guard
    \/ S2Convert
    \/ S2ConvertRaises
    \/ S2Page
    \/ S2Label
    \/ S3Guard
    \/ S3Run
    \/ S3RunRaises
    \/ S4Guard
    \/ S4Fallback
    \/ Analyze
    \/ MainPrint

Spec == Init /\ [][Next]_vars

(***************************************************************************)
(* Vocabulary of the properties.                                           *)
(***************************************************************************)
\* The strategy a program position belongs to; 0 for the positions between
\* strategies (the guards, the analyzer, __main__).
StrategyOf(p) ==
    CASE p \in {"s1_open", "s1_page", "s1_close", "s1_label"} -> 1
      [] p \in {"s2_convert", "s2_page"} -> 2
      [] p = "s3_run" -> 3
      [] p = "s4_fallback" -> 4
      [] OTHER -> 0

\* Program order of the positions.
Rank(p) ==
    CASE p = "main" -> 0
      [] p = "exists" -> 1
      [] p = "s1_open" -> 2
      [] p = "s1_page" -> 3
      [] p = "s1_close" -> 4
      [] p = "s1_label" -> 5
      [] p = "s2_guard" -> 6
      [] p = "s2_convert" -> 7
      [] p = "s2_page" -> 8
      [] p = "s3_guard" -> 9
      [] p = "s3_run" -> 10
      [] p = "s4_guard" -> 11
      [] p = "s4_fallback" -> 12
      [] p = "analyze" -> 13
      [] p = "returned" -> 14
      [] OTHER -> 15

\* The strategy whose output a text is, read off the text itself: the page
\* markers of strategies 1 and 2 differ, the placeholder starts with a
\* template word, the pdftotext output is plain characters.  0: no text.
Producer(text) ==
    IF NoTextYet(text) THEN 0
    ELSE LET h == Head(Strip(text)) IN
         IF h.k = "mark"
         THEN (IF h.s \in {"PAGINA", "PAGINA (OCR)"} THEN 1 ELSE 2)
         ELSE IF h.k = "word" THEN 4 ELSE 3

LabelOf(k) ==
    CASE k = 1 -> LabelNative
      [] k = 2 -> LabelFullOCR
      [] k = 3 -> LabelPdftotext
      [] k = 4 -> LabelFallback
      [] OTHER -> LabelUnset

IsPrefix(s, t) == Len(s) <= Len(t) /\ SubSeq(t, 1, Len(s)) = s

HasNativeSection(text) ==
    \E j \in 1..Len(text) : text[j].k = "mark" /\ text[j].s = "PAGINA"

\* the text is handed to the analyzer
Handoff == pc = "analyze"

Finished == pc = "exit"

(***************************************************************************)
(* C1.  The strategies run in the order 1, 2, 3, 4; a strategy is started  *)
(* only when the text accumulated so far is empty after trimming; and once *)
(* the text is non-empty it is changed only by the strategy that produced  *)
(* it, which can only append to it.                                        *)
(***************************************************************************)
C1_Step ==
    /\ Rank(pc') >= Rank(pc)
    /\ (StrategyOf(pc') # 0 /\ StrategyOf(pc') # StrategyOf(pc))
          => NoTextYet(extracted_text)
    /\ (~NoTextYet(extracted_text) /\ extracted_text' # extracted_text)
          => /\ StrategyOf(pc) = Producer(extracted_text)
             /\ IsPrefix(extracted_text, extracted_text')

C1_StrategyOrder == [][C1_Step]_vars

\* strategy 1 found nothing, strategy 2 produced the text, strategies 3 and 4
\* were skipped
C1_Witness ==
    /\ Handoff
    /\ Producer(extracted_text) = 2
    /\ extraction_method = LabelFullOCR

(***************************************************************************)
(* C2.  When the text is handed to the analyzer, the method label is set   *)
(* if and only if the text is non-empty after trimming, and a text that no *)
(* strategy 1-3 produced is the non-empty placeholder with the fallback    *)
(* label.                                                                  *)
(***************************************************************************)
C2_LabelIffText ==
    Handoff =>
        /\ (extraction_method # LabelUnset) <=> ~NoTextYet(extracted_text)
        /\ Producer(extracted_text) \notin {1, 2, 3}
              => /\ extraction_method = LabelFallback
                 /\ extracted_text = Placeholder(startup_name, file_size)
                 /\ ~NoTextYet(extracted_text)

(***************************************************************************)
(* C3.  When the text is handed to the analyzer, the method label is the   *)
(* label of the strategy that produced the text.                           *)
(***************************************************************************)
C3_LabelNamesProducer ==
    Handoff => extraction_method = LabelOf(Producer(extracted_text))

(***************************************************************************)
(* C4.  analyze_with_openai never raises: for every credential state and   *)
(* every behaviour of the completion API it returns a record.              *)
(***************************************************************************)
C4_AnalyzerNeverRaises ==
    Handoff =>
        \A key \in BOOLEAN, env \in ApiEnvs :
            ~analyze_with_openai(extracted_text, startup_name, key, env).raised

(***************************************************************************)
(* C5.  No temporary image file outlives the OCR step of its page: after   *)
(* every step of the run, no temporary file created by the run exists.     *)
(***************************************************************************)
C5_NoTempFileLeft == tmp_alive = 0

(***************************************************************************)
(* C6.  A run with exactly two arguments in which extraction ended with a  *)
(* method label (the fallback label included) exits with status 0, and a   *)
(* run exits non-zero only when the argument count is wrong or an          *)
(* exception reached the top level.                                        *)
(***************************************************************************)
C6_ExitZeroOnCompletion ==
    Finished =>
        /\ (argc = ExpectedArgc /\ extraction_method # LabelUnset) => exit_status = 0
        /\ exit_status # 0 =>
              \/ argc # ExpectedArgc
              \/ "error_type" \in DOMAIN stdout_json[1]

(***************************************************************************)
(* C7.  When the document path does not exist, the printed object has      *)
(* extraction_method "failed" and the exit status is non-zero.             *)
(***************************************************************************)
C7_MissingFileFails ==
    (Finished /\ argc = ExpectedArgc /\ ~fileExists) =>
        /\ Len(stdout_json) = 1
        /\ stdout_json[1].extraction_method = LabelFailed
        /\ exit_status # 0

(***************************************************************************)
(* C8.  Without an API credential the analyzer makes no completion call    *)
(* and the analysis of the printed record carries the startup name and the *)
(* credential-not-configured error.                                        *)
(***************************************************************************)
C8_NoCredentialShortCircuit ==
    (Finished /\ argc = ExpectedArgc /\ fileExists /\ ~api_key) =>
        /\ api_calls = <<>>
        /\ stdout_json[1].analysis = NotConfigured(startup_name)

(***************************************************************************)
(* C9 as claimed.  If any page of the document has a native text layer,    *)
(* the method label handed to the analyzer is the native-text label, and   *)
(* no OCR call is made for that page.                                      *)
(***************************************************************************)
C9_NativeTextWins ==
    /\ (Handoff /\ doc.textPage # 0) => extraction_method = LabelNative
    /\ (last.page # 0 /\ last.page = doc.textPage) => ~last.ocrCalled

(***************************************************************************)
(* C9 as amended.  If strategy 1 extracts native text from a page, which   *)
(* is then one of the first 10 pages, no OCR is attempted or called for    *)
(* that page, no later strategy runs, and the method label handed to the   *)
(* analyzer is the native-text label or unset, never another strategy's.   *)
(***************************************************************************)
C9_ExtractedNativeTextWins ==
    /\ (last.strategy = 1 /\ PageKind(last.page) = "text" /\ last.native # "raised")
          => (~last.ocrAttempted /\ ~last.ocrCalled)
    /\ HasNativeSection(extracted_text) =>
          /\ StrategyOf(pc) \notin {2, 3, 4}
          /\ doc.textPage \in 1..S1PageCap
          /\ \A j \in 1..Len(extracted_text) :
                (extracted_text[j].k = "mark" /\ extracted_text[j].s = "PAGINA")
                    => extracted_text[j].p = doc.textPage
          /\ Handoff => extraction_method \in {LabelNative, LabelUnset}
    /\ (Handoff /\ extraction_method = LabelNative) => Producer(extracted_text) = 1

\* a document longer than the page cap whose native text was extracted
C9_Witness ==
    /\ Handoff
    /\ doc.n > S1PageCap
    /\ HasNativeSection(extracted_text)
    /\ extraction_method = LabelNative

(***************************************************************************)
(* C10 as claimed.  Every page processed in strategy 1 whose native text   *)
(* extraction returned nothing or raised has had inline OCR attempted.     *)
(***************************************************************************)
C10_OcrAfterEmptyOrFailed ==
    (last.strategy = 1 /\ last.native # "text") => last.ocrAttempted

(***************************************************************************)
(* C10 as amended.  Every page processed in strategy 1 whose native text   *)
(* extraction returned None, empty or whitespace-only text has had inline  *)
(* OCR attempted; a page whose extraction raised is skipped without OCR;   *)
(* strategy 1 ends its loop only after every page up to the cap had its    *)
(* step.                                                                   *)
(***************************************************************************)
C10_OcrAfterEmptyNative ==
    /\ (last.strategy = 1 /\ PageKind(last.page) # "text" /\ last.native # "raised")
          => last.ocrAttempted
    /\ (last.strategy = 1 /\ last.native = "raised")
          => (~last.ocrAttempted /\ ~last.ocrCalled)
    /\ pc \in {"s1_close", "s1_label"}
          => i = (IF doc.n < S1PageCap THEN doc.n ELSE S1PageCap) + 1

\* a page without native text was OCRed inline and the OCR found nothing
C10_Witness ==
    /\ last.strategy = 1
    /\ last.native = "empty"
    /\ last.ocrAttempted
    /\ last.ocrCalled
    /\ NoTextYet(extracted_text)

(***************************************************************************)
(* C11.  Strategy 1 processes (native extraction or inline OCR) only pages *)
(* 1..10 and strategy 2 rasterizes and OCRs only pages 1..5, whatever the  *)
(* page count of the document; no section of the text carries a page above *)
(* the cap of its strategy.                                                *)
(***************************************************************************)
C11_PageCaps ==
    /\ last.strategy = 1 => last.page \in 1..S1PageCap
    /\ last.strategy = 2 => last.page \in 1..S2PageCap
    /\ pc = "s1_page" => i <= S1PageCap + 1
    /\ pc = "s2_page" => (images <= S2PageCap /\ i <= S2PageCap + 1)
    /\ \A j \in 1..Len(extracted_text) :
          extracted_text[j].k = "mark" =>
              extracted_text[j].p <=
                  (IF extracted_text[j].s = "PAGINA (PDF2IMAGE+OCR)"
                   THEN S2PageCap ELSE S1PageCap)

\* page 10 of a longer document has just been processed by strategy 1
C11_Witness ==
    /\ pc = "s1_page"
    /\ doc.n > S1PageCap
    /\ last.strategy = 1
    /\ last.page = S1PageCap
    /\ i = S1PageCap + 1

(***************************************************************************)
(* C12.  For every credential state and every behaviour of the completion  *)
(* API, analyze_with_openai returns a record whose name field is the       *)
(* startup name it was called with.                                        *)
(***************************************************************************)
C12_NamePreserved ==
    Handoff =>
        \A key \in BOOLEAN, env \in ApiEnvs :
            LET r == analyze_with_openai(extracted_text, startup_name, key, env) IN
            /\ ~r.raised
            /\ "name" \in DOMAIN r.value
            /\ r.value.name = startup_name

(***************************************************************************)
(* C13.  When a strategy 1-3 extracted the text and the completion API     *)
(* answers with text that is not JSON, the run ends with exit status 0 and *)
(* a printed record whose extracted_text is the extracted text and whose   *)
(* analysis has an error field.                                            *)
(***************************************************************************)
C13_MalformedJsonDegrades ==
    /\ (Handoff /\ Producer(extracted_text) \in {1, 2, 3}) =>
          \A env \in ApiEnvs :
              (env.content = "malformed" /\ (env.new = "ok" \/ env.legacy = "ok")) =>
                  LET r == analyze_with_openai(extracted_text, startup_name, TRUE, env) IN
                  /\ ~r.raised
                  /\ "error" \in DOMAIN r.value
    /\ (Finished /\ argc = ExpectedArgc /\ Producer(extracted_text) \in {1, 2, 3}) =>
          /\ exit_status = 0
          /\ stdout_json[1].extracted_text = extracted_text

(***************************************************************************)
(* C14.  Whatever path the run took, exactly one JSON object has been      *)
(* printed when the process ends, and it has the keys extracted_text,      *)
(* extraction_method and analysis.                                         *)
(***************************************************************************)
RequiredKeys == {"extracted_text", "extraction_method", "analysis"}

C14_RequiredKeys ==
    /\ \A j \in 1..Len(stdout_json) : RequiredKeys \subseteq DOMAIN stdout_json[j]
    /\ Finished => Len(stdout_json) = 1

\* a run that got past the extraction and ended in the top-level handler
C14_Witness ==
    /\ Finished
    /\ argc = ExpectedArgc
    /\ fileExists
    /\ exit_status = 1
    /\ Len(stdout_json) = 1
    /\ ~NoTextYet(extracted_text)

(***************************************************************************)
(* C15.  When the text is still empty after strategies 1, 2 and 3, the     *)
(* placeholder step runs and does not fail: it hands over to the analyzer  *)
(* with the fallback label and a non-empty text that contains the startup  *)
(* name and the file size in kilobytes.                                    *)
(***************************************************************************)
Contains(text, tok) == \E j \in 1..Len(text) : text[j] = tok

C15_Step ==
    /\ (pc = "s4_guard" /\ NoTextYet(extracted_text)) => pc' = "s4_fallback"
    /\ pc = "s4_fallback" =>
          /\ pc' = "analyze"
          /\ extraction_method' = LabelFallback
          /\ ~NoTextYet(extracted_text')
          /\ Contains(extracted_text', Arg(startup_name))
          /\ Contains(extracted_text', Num(file_size \div 1024))

C15_FallbackPlaceholder == [][C15_Step]_vars

C15_Witness ==
    /\ Handoff
    /\ extraction_method = LabelFallback
    /\ startup_name = "Acme"
    /\ Contains(extracted_text, Arg("Acme"))
    /\ Contains(extracted_text, Num(2))

(***************************************************************************)
(* C16.  In the page loops of strategies 1 and 2, a page that is within    *)
(* the loop's range is always followed by the next page of the same loop,  *)
(* whatever raised on it, and the text accumulated so far stays a prefix   *)
(* of the text; in particular a page on which a call raised leaves the     *)
(* text as it was.                                                         *)
(***************************************************************************)
C16_Step ==
    /\ (pc = "s1_page" /\ i <= doc.n /\ i <= S1PageCap) =>
          /\ pc' = "s1_page"
          /\ i' = i + 1
          /\ IsPrefix(extracted_text, extracted_text')
          /\ last'.native = "raised" => extracted_text' = extracted_text
    /\ (pc = "s2_page" /\ i <= images) =>
          /\ pc' = "s2_page"
          /\ i' = i + 1
          /\ IsPrefix(extracted_text, extracted_text')
    /\ (pc \in {"s1_page", "s2_page"} /\ pc' = pc) =>
          extraction_method' = extraction_method

C16_PageFailureIsLocal == [][C16_Step]_vars

\* native extraction raised on a page after text was accumulated, and a
\* further page is still to be processed
C16_Witness ==
    /\ pc = "s1_page"
    /\ last.strategy = 1
    /\ last.native = "raised"
    /\ HasNativeSection(extracted_text)
    /\ i <= doc.n
    /\ i <= S1PageCap

(***************************************************************************)
(* C17.  The prompt analyze_with_openai builds holds the text it was given *)
(* when that text has at most 12000 characters, and the first 12000        *)
(* characters followed by the truncation marker when it has more.          *)
(***************************************************************************)
Infix(t, text) ==
    \E a \in 0..(Len(text) - Len(t)) : SubSeq(text, a + 1, a + Len(t)) = t

C17_PromptText ==
    Handoff =>
        \A env \in ApiEnvs :
            LET r == analyze_with_openai(extracted_text, startup_name, TRUE, env)
                n == Len(extracted_text)
            IN IF n <= max_chars
               THEN Infix(extracted_text, r.prompt)
               ELSE /\ Infix(SubSeq(extracted_text, 1, max_chars), r.prompt)
                    /\ ~Infix(SubSeq(extracted_text, 1, max_chars + 1), r.prompt)
                    /\ Contains(r.prompt, Word("[TEXTO TRUNCADO PARA ANALISE]"))

(***************************************************************************)
(* C18.  While strategy 1 runs and afterwards, the page markers of its     *)
(* text are in strictly increasing page order (so no page has two          *)
(* sections), a native section belongs to a page with a text layer, an     *)
(* inline-OCR section to a page without one whose OCR gave text, and a     *)
(* page with neither has no section.                                       *)
(***************************************************************************)
MarksOf(text) == { j \in 1..Len(text) : text[j].k = "mark" }

C18_OneSectionPerPage ==
    (pc \in {"s1_page", "s1_close", "s1_label"}) =>
        /\ \A j, k \in MarksOf(extracted_text) :
              j < k => extracted_text[j].p < extracted_text[k].p
        /\ \A j \in MarksOf(extracted_text) :
              /\ extracted_text[j].p < i
              /\ extracted_text[j].s \in {"PAGINA", "PAGINA (OCR)"}
              /\ extracted_text[j].s = "PAGINA" => PageKind(extracted_text[j].p) = "text"
              /\ extracted_text[j].s = "PAGINA (OCR)" => PageKind(extracted_text[j].p) = "scan"
              /\ PageKind(extracted_text[j].p) # "blank"

\* both kinds of section in one text, further pages without a section
C18_Witness ==
    /\ pc = "s1_close"
    /\ Cardinality(MarksOf(extracted_text)) = 2
    /\ \E j, k \in MarksOf(extracted_text) :
          /\ extracted_text[j].s = "PAGINA (OCR)"
          /\ extracted_text[k].s = "PAGINA"
    /\ doc.n > 2

(***************************************************************************)
(* C19.  A run on an existing file prints a record whose extracted_text is *)
(* the text the strategies produced, whose text_length is its length and   *)
(* whose extraction_method is the label set before the analyzer was called.*)
(***************************************************************************)
C19_ExtractionUnchangedByAnalysis ==
    (Finished /\ argc = ExpectedArgc /\ fileExists) =>
        /\ stdout_json[1].extracted_text = extracted_text
        /\ stdout_json[1].extraction_method = extraction_method
        /\ "text_length" \in DOMAIN stdout_json[1]
        /\ stdout_json[1].text_length = Len(extracted_text)

(***************************************************************************)
(* C20.  With a credential, analyze_with_openai makes the new-client call  *)
(* first and the legacy call only after it failed, at most two calls in    *)
(* all, and when both fail it returns the API-failure record with error    *)
(* and error_type.                                                         *)
(***************************************************************************)
C20_LegacyAfterNewFailed ==
    Handoff =>
        \A env \in ApiEnvs :
            LET r == analyze_with_openai(extracted_text, startup_name, TRUE, env) IN
            /\ Len(r.calls) <= 2
            /\ r.calls = (IF env.new = "ok" THEN <<"new">> ELSE <<"new", "legacy">>)
            /\ (env.new = "raise" /\ env.legacy = "raise") =>
                  /\ ~r.raised
                  /\ {"error", "error_type"} \subseteq DOMAIN r.value

====
